---------------------------- MODULE Spec2Model ----------------------------
(***************************************************************************)
(* Model of the call-to-ticket correlation core of the Zendesk voice       *)
(* integration server (src/src/server/app.py) together with the part of   *)
(* the Zendesk client it drives (src/src/zendesk/api.py).                  *)
(*                                                                         *)
(* Every webhook delivery is handled by a worker r in Workers of the HTTP  *)
(* server; a worker that has answered takes the next delivery.  A handler  *)
(* advances one store operation or one ticketing call at a time (each      *)
(* single-document Firestore operation and each Zendesk API call is one    *)
(* atomic step); pure computation between two such calls belongs to the    *)
(* step of the call that follows it.                                       *)
(*                                                                         *)
(* Conventions: Python's None is 0 for a ticket id / result and <<>> for   *)
(* an unset environment string.  Strings the code inspects character by    *)
(* character (phone numbers, ALLOWED_PHONE_NUMBERS) are sequences of       *)
(* one-character strings.  The deployment is taken to be configured        *)
(* (ZendeskAPI() constructs).                                              *)
(***************************************************************************)
EXTENDS Integers, Sequences, FiniteSets, TLC

\* ------------------------------------------------------------------ bounds
\* Number of webhook deliveries in a run.
MaxRequests == 3
\* Number of Firestore calls that raise GoogleAPIError in a run (with no client,
\* every call fails and none is counted).
MaxFaults == 1

\* The workers of the HTTP server.
Workers == {"w1", "w2"}

\* ------------------------------------------------------------ input values
\* "+15551234567", "+15559876543" and "+19999999999"
P1 == <<"+","1","5","5","5","1","2","3","4","5","6","7">>
P2 == <<"+","1","5","5","5","9","8","7","6","5","4","3">>
P9 == <<"+","1","9","9","9","9","9","9","9","9","9","9">>
Phones == {P1, P9}
\* "+15551234567ab": the digits of P1 followed by letters.
PDirty == P1 \o <<"a", "b">>
\* The document ids the active_tickets collection may get.
Callers == Phones \cup {PDirty}
CallIds == {"X", "Y"}
valid_events == {"call_started", "call_ended"}

AllFields == {"call_id", "from_number", "start_timestamp", "end_timestamp", "duration_ms"}

\* The 'call' object of a payload: a dict whose present keys are `keys`
\* (is_dict is FALSE when the value under 'call' is not a JSON object).
CallObj(call_id, from_number, keys) ==
    [is_dict |-> TRUE, keys |-> keys, call_id |-> call_id, from_number |-> from_number,
     start_timestamp |-> 1000000, end_timestamp |-> 1060000,
     duration_ms |-> 60000]

\* A delivery: request.content_length (0 when the header is absent),
\* request.is_json and request.json, a JSON object whose present top-level
\* keys are `keys` (is_dict is FALSE when the body is JSON of another type).
Payload(event, call_id, from_number, keys) ==
    [content_length |-> 512, is_json |-> TRUE,
     is_dict |-> TRUE, keys |-> {"event", "call"},
     event |-> event, call |-> CallObj(call_id, from_number, keys)]

NoData == Payload("", "", <<>>, {})

\* Field sets the environment sends: the complete event of each type and the
\* events lacking one field the handlers index without a check.
StartedKeySets == {AllFields \ {"end_timestamp", "duration_ms"},
                   AllFields \ {"start_timestamp", "end_timestamp", "duration_ms"}}
EndedKeySets == {AllFields,
                 AllFields \ {"start_timestamp"},
                 AllFields \ {"end_timestamp"},
                 AllFields \ {"duration_ms"}}

Payloads ==
    {Payload("call_started", c, p, k) : c \in CallIds, p \in Phones, k \in StartedKeySets}
    \cup
    {Payload("call_ended", c, p, k) : c \in CallIds, p \in Phones, k \in EndedKeySets}

\* The events as the webhook source defines them: every field of the type present.
IsComplete(d) ==
    d.call.keys = IF d.event = "call_started"
                  THEN AllFields \ {"end_timestamp", "duration_ms"}
                  ELSE AllFields

CompletePayloads == {d \in Payloads : IsComplete(d)}

\* "5551234": a from_number without the leading '+' and with too few digits.
PBad == <<"5","5","5","1","2","3","4">>

\* Payloads of each kind validate_call_data turns down, made from a complete
\* call_started event: not an object, no 'event', no 'call', 'call' not an
\* object, no call_id, no from_number, a from_number of the wrong format or
\* empty, an event type that is not handled.
Malformed ==
    LET v == Payload("call_started", "X", P1, AllFields \ {"end_timestamp", "duration_ms"}) IN
    { [v EXCEPT !.is_dict = FALSE],
      [v EXCEPT !.keys = {"call"}],
      [v EXCEPT !.keys = {"event"}],
      [v EXCEPT !.call.is_dict = FALSE],
      [v EXCEPT !.call.keys = @ \ {"call_id"}],
      [v EXCEPT !.call.keys = @ \ {"from_number"}],
      [v EXCEPT !.call.from_number = PBad],
      [v EXCEPT !.call.from_number = <<>>],
      [v EXCEPT !.event = "call_analyzed"] }

\* The largest request.content_length _validate_request lets through.
MaxContentLength == 1048576   \* 1024 * 1024

\* Deliveries whose size or content type is at or beyond what _validate_request
\* accepts, made from a complete call_started event and from a body that is
\* not an object: over the limit, not JSON, both, exactly at the limit, and
\* without a Content-Length header.
Oversized ==
    LET v == Payload("call_started", "X", P1, AllFields \ {"end_timestamp", "duration_ms"}) IN
    { [v EXCEPT !.content_length = MaxContentLength + 1],
      [v EXCEPT !.is_json = FALSE],
      [v EXCEPT !.content_length = MaxContentLength + 1, !.is_json = FALSE],
      [v EXCEPT !.content_length = MaxContentLength + 1, !.is_dict = FALSE],
      [v EXCEPT !.is_json = FALSE, !.is_dict = FALSE],
      [v EXCEPT !.content_length = MaxContentLength],
      [v EXCEPT !.content_length = 0] }

\* ------------------------------------------------------------------ state
VARIABLES
    firestore_client,       \* TRUE iff firestore.Client() was constructed
    ALLOWED_PHONE_NUMBERS,  \* the environment variable (<<>> when unset)
    processed_calls,        \* collection 'processed_calls': key -> writer (0: no document)
    active_tickets,         \* collection 'active_tickets': phone -> ticket id (0: no document)
    zendesk_tickets,        \* the tickets of the ticketing backend, by id
    sequential,             \* TRUE iff the deliveries are handled one after the other
    inputs,                 \* the payloads the webhook source may deliver
    store_reliable,         \* TRUE iff no Firestore call raises GoogleAPIError
    faults,                 \* per collection, the number of Firestore calls that raised
    received,               \* number of deliveries received so far
    pc,                     \* position of each request's handler
    request,                \* the delivery each worker is handling or has handled last
    data,                   \* request.json of each request (NoData until it is read)
    ticket_id,              \* local ticket_id of _retry_get_active_ticket / _handle_call_ended
    retry_count,            \* local retry_count of _retry_get_active_ticket
    result,                 \* local result (0: None, else the ticket id of the response)
    response,               \* the HTTP response of each request
    trace,                  \* the store and ticketing calls each request has made, in order
    seen,                   \* active_tickets[phone] when the request was received
    nth,                    \* the request is the nth admitted delivery of its event
    dispatched,             \* (event, call_id) -> number of deliveries that passed the allow-list
    create_calls,           \* key -> number of create_ticket calls made for it
    succeeded,              \* keys of which some delivery's ticket operation succeeded
    api_call,               \* the last call of a ZendeskAPI method made directly: its arguments
    api_result,             \* what that call returned (0: None, 1: the response dict)
    http,                   \* the HTTP requests that call sent, in order, with what came back
    api_raised,             \* TRUE iff that call ended with an exception instead of returning
    safe_delete,            \* the safe_delete_user call under way: position, the tickets the
                            \* user has, the list get_user_tickets returned, and the calls made
    api_frame,              \* locals of create_ticket: users, selected_user and the payload data
    late_commit             \* per call_ended handler: the ticket of the mapping another
                            \* handler stored for its caller after it had started and
                            \* before its last lookup (0: none)

vars == <<firestore_client, ALLOWED_PHONE_NUMBERS, processed_calls, active_tickets,
          zendesk_tickets, sequential, inputs, store_reliable, faults, received, pc, request, data, ticket_id, retry_count,
          result, response, trace, seen, nth, dispatched, create_calls, succeeded,
          late_commit, api_call, api_result, http, api_raised, api_frame,
          safe_delete>>

ghosts == <<dispatched, create_calls, succeeded>>

env == <<firestore_client, ALLOWED_PHONE_NUMBERS, sequential, inputs, store_reliable>>

api == <<api_call, api_result, http, api_raised, api_frame, safe_delete>>

\* ------------------------------------------------------- pure functions
Digits == {"0", "1", "2", "3", "4", "5", "6", "7", "8", "9"}
Whitespace == {" ", "\t", "\n"}

IsDigitOrPlus(c) == c \in Digits \cup {"+"}

\* re.match(r'^\+\d{10,15}$', s): '$' matches at the end of the string and
\* also just before a newline that ends the string.
MatchesPhonePattern(s) ==
    LET body == IF s # <<>> /\ s[Len(s)] = "\n" THEN SubSeq(s, 1, Len(s) - 1) ELSE s IN
    /\ Len(body) >= 11
    /\ Len(body) <= 16
    /\ body[1] = "+"
    /\ \A i \in 2..Len(body) : body[i] \in Digits

\* validate_phone_number: non-digit, non-plus characters are dropped first.
validate_phone_number(phone_number) ==
    /\ phone_number # <<>>
    /\ MatchesPhonePattern(SelectSeq(phone_number, IsDigitOrPlus))

\* (mutant) validate_call_data that does not require call_id.
validate_call_data_lax(d) ==
    /\ d.is_dict
    /\ {"event", "call"} \subseteq d.keys
    /\ d.call.is_dict
    /\ "from_number" \in d.call.keys
    /\ validate_phone_number(d.call.from_number)
    /\ d.event \in valid_events

\* validate_call_data: TRUE iff it returns (True, None).
validate_call_data(d) ==
    /\ d.is_dict
    /\ {"event", "call"} \subseteq d.keys
    /\ d.call.is_dict
    /\ {"call_id", "from_number"} \subseteq d.call.keys
    /\ validate_phone_number(d.call.from_number)
    /\ d.event \in valid_events

RECURSIVE lstrip(_)
lstrip(s) ==
    IF s # <<>> /\ Head(s) \in Whitespace THEN lstrip(Tail(s)) ELSE s

RECURSIVE rstrip(_)
rstrip(s) ==
    IF s # <<>> /\ s[Len(s)] \in Whitespace THEN rstrip(SubSeq(s, 1, Len(s) - 1)) ELSE s

strip(s) == rstrip(lstrip(s))

\* s.split(','): the pieces between commas, in order.
RECURSIVE split(_, _)
split(s, cur) ==
    IF s = <<>> THEN <<cur>>
    ELSE IF Head(s) = "," THEN <<cur>> \o split(Tail(s), <<>>)
    ELSE split(Tail(s), Append(cur, Head(s)))

\* (mutant) is_phone_number_allowed without the strip() of the list entries.
is_phone_number_allowed_raw(phone_number) ==
    IF ALLOWED_PHONE_NUMBERS = <<>> THEN TRUE
    ELSE LET parts == split(ALLOWED_PHONE_NUMBERS, <<>>)
         IN  phone_number \in {parts[i] : i \in 1..Len(parts)}

\* (mutant) is_phone_number_allowed that takes a blank setting for an unset one.
is_phone_number_allowed_blank(phone_number) ==
    IF strip(ALLOWED_PHONE_NUMBERS) = <<>> THEN TRUE
    ELSE LET parts == split(ALLOWED_PHONE_NUMBERS, <<>>)
             allowed_list == {strip(parts[i]) : i \in 1..Len(parts)}
         IN  phone_number \in allowed_list

is_phone_number_allowed(phone_number) ==
    IF ALLOWED_PHONE_NUMBERS = <<>> THEN TRUE
    ELSE LET parts == split(ALLOWED_PHONE_NUMBERS, <<>>)
             allowed_list == {strip(parts[i]) : i \in 1..Len(parts)}
         IN  phone_number \in allowed_list

\* (mutant) a ledger key per call instead of per event of a call.
event_call_key_per_call(event, call_id) == "call_" \o call_id

\* f"{event}_{call_id}"
event_call_key(event, call_id) == event \o "_" \o call_id

\* The (event, call_id) pairs of the events that pass validate_call_data.
Pairs == valid_events \X CallIds

Keys == {event_call_key(e, c) : e \in valid_events, c \in CallIds}

\* datetime.fromtimestamp(ms / 1000, tz=utc).strftime('%Y-%m-%d %H:%M:%S'):
\* the time to the second, the milliseconds dropped.
strftime(ms) == ms \div 1000

\* ------------------------------------------------------ program constants
max_retries == 5
retry_delay_seconds == 10

InProgressTags == <<"call", "insait-ai-agent", "in-progress">>
FallbackTags == <<"call", "insait-ai-agent", "completed">>
UpdateTags == <<"call", "insait-ai-agent", "completed">>
UpdateStatus == "open"

DuplicateMessage == "Duplicate event-call pair, ignored"

\* ---------------------------------------------------------------- helpers
NoResponse == [status |-> 0, message |-> ""]

Op(name, ok, arg) == [op |-> name, ok |-> ok, arg |-> arg]

phone_of(r) == data[r].call.from_number
event_of(r) == data[r].event
key_of(r) == event_call_key(data[r].event, data[r].call.call_id)
pair_of(r) == <<data[r].event, data[r].call.call_id>>
has_fields(r, fields) == fields \subseteq data[r].call.keys

\* The outcomes of one Firestore call: it fails when there is no client, and it
\* may raise GoogleAPIError.  A read of a missing document gives the same
\* answer either way, so only the failures that can be told apart are drawn.
StoreOutcomes(distinguishable) ==
    IF ~firestore_client THEN {FALSE}
    ELSE IF distinguishable /\ ~store_reliable
            /\ faults.processed_calls + faults.active_tickets < MaxFaults THEN BOOLEAN
    ELSE {TRUE}

\* Counts a call on collection `coll` that raised.
Fault(coll, ok) ==
    faults' = IF firestore_client /\ ~ok THEN [faults EXCEPT ![coll] = faults[coll] + 1]
              ELSE faults

\* (mutant) get_active_ticket that never finds the mapping.
get_active_ticket_blind(phone, ok) == 0

\* get_active_ticket: the mapped ticket id, None on a miss or a store failure.
get_active_ticket(phone, ok) == IF ok THEN active_tickets[phone] ELSE 0

\* (mutant) check_processed_call that never finds the document.
check_processed_call_blind(key, ok) == FALSE

\* check_processed_call: doc.exists, False on a store failure.
\* (mutant) check_processed_call that reports a failed read as 'processed'.
check_processed_call_closed(key, ok) == ~ok \/ processed_calls[key] # 0

check_processed_call(key, ok) == ok /\ processed_calls[key] # 0

\* The ticket _handle_call_started creates.
InitialTicket(r) ==
    [subject |-> "Ongoing Call", tags |-> InProgressTags, status |-> "new",
     requester_phone |-> phone_of(r),
     description |-> [heading |-> "Ongoing Call Information",
                      start_time |-> strftime(data[r].call.start_timestamp),
                      end_time |-> 0,
                      call_id |-> data[r].call.call_id],
     updates |-> 0]

\* The ticket _create_new_ticket_for_ended_call creates.
FallbackTicket(r) ==
    [subject |-> "Completed Call", tags |-> FallbackTags, status |-> "new",
     requester_phone |-> phone_of(r),
     description |-> [heading |-> "Completed Call Information",
                      start_time |-> strftime(data[r].call.start_timestamp),
                      end_time |-> strftime(data[r].call.end_timestamp),
                      call_id |-> ""],
     updates |-> 0]

\* The effect of _update_existing_ticket's update_ticket call on ticket t.
UpdatedTicket(t, r) ==
    [t EXCEPT !.subject = "Completed Call", !.tags = UpdateTags,
              !.status = UpdateStatus,
              !.description = [heading |-> "Call Completed - Updated Information",
                               start_time |-> t.description.start_time,
                               end_time |-> strftime(data[r].call.end_timestamp),
                               call_id |-> t.description.call_id],
              !.updates = t.updates + 1]

\* The outcomes of ZendeskAPI.create_ticket for a requester phone (TRUE: the
\* ticket was created): _validate_ticket_inputs matches the phone against
\* ^\+\d{10,15}$ as it is, and create_ticket returns None when it does not
\* match; otherwise the request may succeed or fail.
CreateOutcomes(requester_phone) ==
    IF MatchesPhonePattern(requester_phone) THEN BOOLEAN ELSE {FALSE}

\* (mutant) the content type is looked at before the size.
_validate_request_TypeFirst(req) ==
    IF ~req.is_json THEN 400
    ELSE IF req.content_length # 0 /\ req.content_length > MaxContentLength THEN 413
    ELSE 0

\* _validate_request: the status of the error response, 0 for None.
_validate_request(req) ==
    IF req.content_length # 0 /\ req.content_length > MaxContentLength THEN 413
    ELSE IF ~req.is_json THEN 400
    ELSE 0

\* ------------------------------------------------------------ ZendeskAPI
\* Texts are sequences of characters. An argument left at its default None
\* is NoText; a ticket_id is a value with its type.
NoText == <<"None">>

Upper == <<"A","B","C","D","E","F","G","H","I","J","K","L","M",
           "N","O","P","Q","R","S","T","U","V","W","X","Y","Z">>
Lower == <<"a","b","c","d","e","f","g","h","i","j","k","l","m",
           "n","o","p","q","r","s","t","u","v","w","x","y","z">>

\* str.lower(), and the letter case re.IGNORECASE ignores.
lower(s) ==
    [i \in DOMAIN s |->
        IF \E k \in DOMAIN Upper : Upper[k] = s[i]
        THEN Lower[CHOOSE k \in DOMAIN Upper : Upper[k] = s[i]]
        ELSE s[i]]

\* pat occurs in s.
Contains(s, pat) ==
    \E i \in 1..(Len(s) - Len(pat) + 1) : SubSeq(s, i, i + Len(pat) - 1) = pat

\* The texts the suspicious_patterns of _validate_input match.
suspicious_patterns ==
    { <<"<","s","c","r","i","p","t">>,
      <<"j","a","v","a","s","c","r","i","p","t",":">>,
      <<"d","a","t","a",":">>,
      <<"v","b","s","c","r","i","p","t",":">>,
      <<"o","n","l","o","a","d","=">>,
      <<"o","n","e","r","r","o","r","=">>,
      <<"e","v","a","l","(">>,
      <<"e","x","p","r","e","s","s","i","o","n","(">> }

\* _validate_input: TRUE when it returns, FALSE when it raises ValueError.
_validate_input(text) ==
    \A pat \in suspicious_patterns : ~Contains(lower(text), pat)

\* _validate_ticket_inputs
_validate_ticket_inputs(subject, description, tags, requester_phone) ==
    /\ _validate_input(subject)
    /\ _validate_input(description)
    /\ \A i \in DOMAIN tags : _validate_input(tags[i])
    /\ MatchesPhonePattern(requester_phone)

valid_statuses == {<<"o","p","e","n">>, <<"p","e","n","d","i","n","g">>,
                   <<"s","o","l","v","e","d">>, <<"c","l","o","s","e","d">>}

\* _validate_update_inputs: an argument that is None is not looked at.
_validate_update_inputs(subject, description, tags, status) ==
    /\ subject # NoText => _validate_input(subject)
    /\ description # NoText => _validate_input(description)
    /\ tags # NoText => \A i \in DOMAIN tags : _validate_input(tags[i])
    /\ status # NoText => lower(status) \in valid_statuses

\* The check update_ticket makes of ticket_id.
ValidTicketId(id) == id.is_int /\ id.value > 0

\* The arguments of the calls made of ZendeskAPI.
SampleTexts ==
    { <<"C","o","m","p","l","e","t","e","d"," ","C","a","l","l">>,
      <<"c","a","l","l"," ","d","a","t","a">>,
      <<"<","S","C","R","I","P","T",">","x">>,
      <<"j","a","v","a","s","c","r","i","p","t",":","x">>,
      <<"a"," ","d","a","t","a",":","x">>,
      <<"V","B","S","c","r","i","p","t",":","x">>,
      <<"o","n","l","o","a","d","=","x">>,
      <<"o","n","e","r","r","o","r","=","x">>,
      <<"e","v","a","l","(","x",")">>,
      <<"e","x","p","r","e","s","s","i","o","n","(","x",")">> }

SampleTags == {<<>>, <<<<"c","a","l","l">>, <<"c","o","m","p","l","e","t","e","d">>>>, <<<<"c","a","l","l">>, <<"<","S","C","R","I","P","T",">","x">>>>}

SamplePhones == {P1, PBad, PDirty, P1 \o <<"\n">>, <<"+">> \o P1}

SampleTicketIds ==
    {[is_int |-> TRUE, value |-> 12345], [is_int |-> TRUE, value |-> 0],
     [is_int |-> TRUE, value |-> -1], [is_int |-> FALSE, value |-> 12345]}

SampleStatuses ==
    valid_statuses \cup {NoText, <<"O","P","E","N">>,
                         <<"i","n","v","a","l","i","d","_","s","t","a","t","u","s">>, <<>>}

NoCall ==
    [method |-> "", subject |-> NoText, description |-> NoText, tags |-> NoText,
     requester_phone |-> NoText, ticket_id |-> [is_int |-> TRUE, value |-> 0],
     status |-> NoText]

\* ----------------------------------------------------------------- actions
Respond(r, status, message) ==
    /\ response' = [response EXCEPT ![r] = [status |-> status, message |-> message]]
    /\ pc' = [pc EXCEPT ![r] = "done"]

Goto(r, label) ==
    /\ pc' = [pc EXCEPT ![r] = label]
    /\ UNCHANGED response

Log(r, ops) == trace' = [trace EXCEPT ![r] = trace[r] \o ops]

\* Bookkeeping of a create_ticket call made for the event of r.
CountCreate(r, ok) ==
    /\ create_calls' = [create_calls EXCEPT ![key_of(r)] = create_calls[key_of(r)] + 1]
    /\ succeeded' = IF ok THEN succeeded \cup {key_of(r)} ELSE succeeded

\* A delivery arrives at a free worker; _validate_request and then
\* _validate_and_extract_call_data admit or reject it.
Receive(r) ==
    /\ received < MaxRequests
    /\ pc[r] \in {"idle", "done"}
    /\ sequential => r = "w1"
    /\ \E d \in inputs :
        /\ request' = [request EXCEPT ![r] = d]
        /\ seen' = [seen EXCEPT ![r] = IF d.call.from_number \in Callers
                                        THEN active_tickets[d.call.from_number] ELSE 0]
        /\ IF _validate_request(d) = 413
           THEN /\ Respond(r, 413, "Request too large")
                /\ data' = [data EXCEPT ![r] = NoData]
           ELSE IF _validate_request(d) = 400
           THEN /\ Respond(r, 400, "Content-Type must be application/json")
                /\ data' = [data EXCEPT ![r] = NoData]
           ELSE /\ data' = [data EXCEPT ![r] = d]
                /\ IF validate_call_data(d)
                   THEN /\ pc' = [pc EXCEPT ![r] = "auth"]
                        /\ response' = [response EXCEPT ![r] = NoResponse]
                   ELSE Respond(r, 400, "Invalid call data")
    /\ received' = received + 1
    /\ ticket_id' = [ticket_id EXCEPT ![r] = 0]
    /\ retry_count' = [retry_count EXCEPT ![r] = 0]
    /\ result' = [result EXCEPT ![r] = 0]
    /\ trace' = [trace EXCEPT ![r] = <<>>]
    /\ nth' = [nth EXCEPT ![r] = 0]
    /\ late_commit' = [late_commit EXCEPT ![r] = 0]
    /\ UNCHANGED <<env, api, ghosts, faults, processed_calls, active_tickets, zendesk_tickets>>

\* _check_authorization_and_duplicates, the allow-list part.
CheckAuthorization(r) ==
    /\ pc[r] = "auth"
    /\ IF ~is_phone_number_allowed(phone_of(r))
       THEN /\ Respond(r, 403, "Phone number not authorized")
            /\ UNCHANGED <<nth, dispatched>>
       ELSE /\ Goto(r, "check")
            /\ nth' = [nth EXCEPT ![r] = dispatched[pair_of(r)] + 1]
            /\ dispatched' = [dispatched EXCEPT ![pair_of(r)] = dispatched[pair_of(r)] + 1]
    /\ UNCHANGED <<env, api, request, late_commit, faults, processed_calls, active_tickets, zendesk_tickets, received,
                   data, ticket_id, retry_count, result, trace, seen,
                   create_calls, succeeded>>

\* 'timestamp': datetime.now() in the record store_processed_call sets: a value
\* no two deliveries of a key share, here the ordinal of the writing delivery
\* among the deliveries of its key.
timestamp(r) == nth[r]

\* (mutant) a duplicate check that refreshes the ledger record it found.
CheckProcessedCall_Refresh(r) ==
    /\ pc[r] = "check"
    /\ \E ok \in StoreOutcomes(processed_calls[key_of(r)] # 0) :
        /\ Log(r, <<Op("check_processed_call", ok, 0)>>)
        /\ Fault("processed_calls", ok)
        /\ IF check_processed_call(key_of(r), ok)
           THEN /\ Respond(r, 200, DuplicateMessage)
                /\ processed_calls' = [processed_calls EXCEPT ![key_of(r)] = timestamp(r)]
           ELSE /\ Goto(r, "store")
                /\ UNCHANGED processed_calls
    /\ UNCHANGED <<env, api, request, late_commit, ghosts, active_tickets, zendesk_tickets, received,
                   data, ticket_id, retry_count, result, seen, nth>>

\* _check_authorization_and_duplicates, the check_processed_call part.
CheckProcessedCall(r) ==
    /\ pc[r] = "check"
    /\ \E ok \in StoreOutcomes(processed_calls[key_of(r)] # 0) :
        /\ Log(r, <<Op("check_processed_call", ok, 0)>>)
        /\ Fault("processed_calls", ok)
        /\ IF check_processed_call(key_of(r), ok)
           THEN Respond(r, 200, DuplicateMessage)
           ELSE Goto(r, "store")
    /\ UNCHANGED <<env, api, request, late_commit, ghosts, processed_calls, active_tickets, zendesk_tickets, received,
                   data, ticket_id, retry_count, result, seen, nth>>

\* _check_authorization_and_duplicates, the store_processed_call part, and the
\* dispatch on the event in create_zendesk_ticket.
StoreProcessedCall(r) ==
    /\ pc[r] = "store"
    /\ \E ok \in StoreOutcomes(TRUE) :
        /\ processed_calls' = IF ok THEN [processed_calls EXCEPT ![key_of(r)] = timestamp(r)]
                                    ELSE processed_calls
        /\ Log(r, <<Op("store_processed_call", ok, 0)>>)
        /\ Fault("processed_calls", ok)
    /\ Goto(r, event_of(r))
    /\ UNCHANGED <<env, api, request, late_commit, ghosts, active_tickets, zendesk_tickets, received,
                   data, ticket_id, retry_count, result, seen, nth>>

\* _handle_call_started up to and including zendesk.create_ticket.
HandleCallStarted(r) ==
    /\ pc[r] = "call_started"
    /\ IF ~has_fields(r, {"start_timestamp"})
       THEN /\ Respond(r, 500, "Internal server error")
            /\ UNCHANGED <<zendesk_tickets, result, trace, create_calls, succeeded>>
       ELSE \E ok \in CreateOutcomes(phone_of(r)) :
            LET id == IF ok THEN Len(zendesk_tickets) + 1 ELSE 0 IN
            /\ zendesk_tickets' = IF ok THEN Append(zendesk_tickets, InitialTicket(r))
                                        ELSE zendesk_tickets
            /\ result' = [result EXCEPT ![r] = id]
            /\ Log(r, <<Op("create_ticket", ok, id)>>)
            /\ CountCreate(r, ok)
            /\ IF id # 0
               THEN Goto(r, "store_active")
               ELSE Respond(r, 500, "Failed to create initial ticket")
    /\ UNCHANGED <<env, api, request, late_commit, faults, processed_calls, active_tickets, received,
                   data, ticket_id, retry_count, seen, nth, dispatched>>

\* The call_ended handler of worker w has started and has a lookup of the
\* mapping of `phone` still to make.
AwaitsMapping(w, phone) ==
    /\ data[w].event = "call_ended"
    /\ data[w].call.from_number = phone
    /\ \/ pc[w] \in {"auth", "check", "store", "call_ended"}
       \/ pc[w] = "retry" /\ ticket_id[w] = 0 /\ retry_count[w] < max_retries

\* Notes, for the call_ended handlers that await it, the mapping r stores.
NoteCommit(r, ok) ==
    late_commit' = [w \in Workers |->
                       IF ok /\ w # r /\ AwaitsMapping(w, phone_of(r))
                       THEN result[r] ELSE late_commit[w]]

\* (mutant) store_active_ticket that keeps a mapping the caller already has.
StoreActiveTicket_KeepFirst(r) ==
    /\ pc[r] = "store_active"
    /\ \E ok \in StoreOutcomes(TRUE) :
        /\ active_tickets' = IF ok /\ active_tickets[phone_of(r)] = 0
                              THEN [active_tickets EXCEPT ![phone_of(r)] = result[r]]
                              ELSE active_tickets
        /\ Log(r, <<Op("store_active_ticket", ok, result[r]),
                    Op("get_all_active_tickets", firestore_client, 0)>>)
        /\ Fault("active_tickets", ok)
        /\ NoteCommit(r, ok)
    /\ Respond(r, 201, "Initial ticket created successfully")
    /\ UNCHANGED <<env, api, ghosts, processed_calls, zendesk_tickets, received,
                   request, data, ticket_id, retry_count, result, seen, nth>>

\* _handle_call_started after a successful create_ticket: store_active_ticket,
\* the logging read get_all_active_tickets, and the 201 answer.
StoreActiveTicket(r) ==
    /\ pc[r] = "store_active"
    /\ \E ok \in StoreOutcomes(TRUE) :
        /\ active_tickets' = IF ok THEN [active_tickets EXCEPT ![phone_of(r)] = result[r]]
                                   ELSE active_tickets
        /\ Log(r, <<Op("store_active_ticket", ok, result[r]),
                    Op("get_all_active_tickets", firestore_client, 0)>>)
        /\ Fault("active_tickets", ok)
        /\ NoteCommit(r, ok)
    /\ Respond(r, 201, "Initial ticket created successfully")
    /\ UNCHANGED <<env, api, ghosts, processed_calls, zendesk_tickets, received,
                   request, data, ticket_id, retry_count, result, seen, nth>>

\* _handle_call_ended up to the first get_active_ticket of
\* _retry_get_active_ticket.
HandleCallEnded(r) ==
    /\ pc[r] = "call_ended"
    /\ \E ok \in StoreOutcomes(active_tickets[phone_of(r)] # 0) :
        LET found == get_active_ticket(phone_of(r), ok) IN
        /\ ticket_id' = [ticket_id EXCEPT ![r] = found]
        /\ Log(r, <<Op("get_all_active_tickets", firestore_client, 0),
                    Op("get_active_ticket", ok, found)>>)
        /\ Fault("active_tickets", ok)
    /\ retry_count' = [retry_count EXCEPT ![r] = 0]
    /\ Goto(r, "retry")
    /\ UNCHANGED <<env, api, request, late_commit, ghosts, processed_calls, active_tickets, zendesk_tickets, received,
                   data, result, seen, nth>>

\* (mutant) a loop condition that allows one retry more.
RetryCondition_OneMore(r) == ticket_id[r] = 0 /\ retry_count[r] <= max_retries

\* (mutant) a loop condition that gives up at once when there is no client.
RetryCondition_NoClient(r) ==
    ticket_id[r] = 0 /\ retry_count[r] < max_retries /\ firestore_client

\* The loop condition of _retry_get_active_ticket.
RetryCondition(r) == ticket_id[r] = 0 /\ retry_count[r] < max_retries

\* (mutant) a loop iteration that looks up again without counting the attempt.
RetryGetActiveTicket_Spin(r) ==
    /\ pc[r] = "retry"
    /\ RetryCondition(r)
    /\ ticket_id' = [ticket_id EXCEPT ![r] = get_active_ticket(phone_of(r), TRUE)]
    /\ UNCHANGED <<env, api, request, late_commit, ghosts, faults, processed_calls, active_tickets, zendesk_tickets,
                   received, pc, data, retry_count, result, response, trace, seen, nth>>

\* One iteration of the loop of _retry_get_active_ticket.
RetryGetActiveTicket(r) ==
    /\ pc[r] = "retry"
    /\ RetryCondition(r)
    /\ \E ok \in StoreOutcomes(active_tickets[phone_of(r)] # 0) :
        LET found == get_active_ticket(phone_of(r), ok) IN
        /\ ticket_id' = [ticket_id EXCEPT ![r] = found]
        /\ Log(r, <<Op("sleep", TRUE, retry_delay_seconds),
                    Op("get_active_ticket", ok, found)>>)
        /\ Fault("active_tickets", ok)
    /\ retry_count' = [retry_count EXCEPT ![r] = retry_count[r] + 1]
    /\ UNCHANGED <<env, api, request, late_commit, ghosts, processed_calls, active_tickets, zendesk_tickets, received,
                   pc, data, result, response, seen, nth>>

\* (mutant) an answer that reports success whatever the ticket call returned.
RespondCallEnded_Swallow(r, res) ==
    Respond(r, 200, "Ticket updated/created successfully")

\* The answer create_zendesk_ticket gives to a call_ended handler's result.
RespondCallEnded(r, res) ==
    IF res # 0
    THEN Respond(r, 200, "Ticket updated/created successfully")
    ELSE Respond(r, 500, "Failed to update/create ticket")

\* (mutant) the fallback path gives up without creating a ticket.
CreateNewTicketForEndedCall_Drop(r) ==
    /\ pc[r] = "retry"
    /\ ~RetryCondition(r)
    /\ ticket_id[r] = 0
    /\ Respond(r, 500, "Failed to update/create ticket")
    /\ UNCHANGED <<env, api, request, late_commit, ghosts, faults, processed_calls, active_tickets, zendesk_tickets,
                   received, data, ticket_id, retry_count, result, trace, seen, nth>>

\* _create_new_ticket_for_ended_call and the answer of create_zendesk_ticket.
CreateNewTicketForEndedCall(r) ==
    /\ pc[r] = "retry"
    /\ ~RetryCondition(r)
    /\ ticket_id[r] = 0
    /\ IF ~has_fields(r, {"start_timestamp", "end_timestamp"})
       THEN /\ Respond(r, 500, "Internal server error")
            /\ UNCHANGED <<zendesk_tickets, result, trace, create_calls, succeeded>>
       ELSE \E ok \in CreateOutcomes(phone_of(r)) :
            LET id == IF ok THEN Len(zendesk_tickets) + 1 ELSE 0 IN
            /\ zendesk_tickets' = IF ok THEN Append(zendesk_tickets, FallbackTicket(r))
                                        ELSE zendesk_tickets
            /\ result' = [result EXCEPT ![r] = id]
            /\ Log(r, <<Op("create_ticket", ok, id)>>)
            /\ CountCreate(r, ok)
            /\ RespondCallEnded(r, id)
    /\ UNCHANGED <<env, api, request, late_commit, faults, processed_calls, active_tickets, received,
                   data, ticket_id, retry_count, seen, nth, dispatched>>

\* _update_existing_ticket up to and including zendesk.update_ticket.
UpdateExistingTicket(r) ==
    /\ pc[r] = "retry"
    /\ ~RetryCondition(r)
    /\ ticket_id[r] # 0
    /\ IF ~has_fields(r, {"end_timestamp", "duration_ms"})
       THEN /\ Respond(r, 500, "Internal server error")
            /\ UNCHANGED <<zendesk_tickets, result, trace, succeeded>>
       ELSE \E ok \in BOOLEAN :
            LET t == ticket_id[r] IN
            /\ zendesk_tickets' =
                   IF ok THEN [zendesk_tickets EXCEPT ![t] = UpdatedTicket(zendesk_tickets[t], r)]
                         ELSE zendesk_tickets
            /\ result' = [result EXCEPT ![r] = IF ok THEN t ELSE 0]
            /\ Log(r, <<Op("update_ticket", ok, t)>>)
            /\ succeeded' = IF ok THEN succeeded \cup {key_of(r)} ELSE succeeded
            /\ Goto(r, "remove")
    /\ UNCHANGED <<env, api, request, late_commit, faults, processed_calls, active_tickets, received,
                   data, ticket_id, retry_count, seen, nth, dispatched, create_calls>>

\* _update_existing_ticket after update_ticket: remove_active_ticket, the
\* logging read, and the answer of create_zendesk_ticket.
RemoveActiveTicket(r) ==
    /\ pc[r] = "remove"
    /\ \E ok \in StoreOutcomes(active_tickets[phone_of(r)] # 0) :
        /\ active_tickets' = IF ok THEN [active_tickets EXCEPT ![phone_of(r)] = 0]
                                   ELSE active_tickets
        /\ Log(r, <<Op("remove_active_ticket", ok, 0),
                    Op("get_all_active_tickets", firestore_client, 0)>>)
        /\ Fault("active_tickets", ok)
    /\ RespondCallEnded(r, result[r])
    /\ UNCHANGED <<env, api, request, late_commit, ghosts, processed_calls, zendesk_tickets, received,
                   data, ticket_id, retry_count, result, seen, nth>>

\* What can come back from one HTTP request made with the session:
\*   ok               a 2xx response whose body is the JSON object expected
\*   timeout          requests.exceptions.Timeout
\*   connection_error another requests.exceptions.RequestException raised by the call
\*   error_status     raise_for_status raises HTTPError
\*   not_json         response.json() cannot decode the body
\*   unexpected_json  the body is JSON of another shape than the code reads
HttpOutcomes ==
    {"ok", "timeout", "connection_error", "error_status", "not_json", "unexpected_json"}

\* Whether the exception of an outcome passes the handlers `except Timeout`
\* and `except RequestException` of the request (TRUE: it leaves the method).
\* The decoding error of response.json() is a RequestException in some
\* versions of requests and a plain ValueError in others; no version is
\* pinned. The AttributeError or TypeError of reading a body of another
\* shape is never a RequestException.
Escapes(outcome) ==
    IF outcome = "unexpected_json" THEN {TRUE}
    ELSE IF outcome = "not_json" THEN BOOLEAN
    ELSE {FALSE}

Sent(req, outcome) == [request |-> req, outcome |-> outcome]

\* A user of a search result: 'name' is NoText when the key is absent or None.
User(id, name) == [id |-> id, name |-> name]

\* None, as the value of selected_user.
NoUser == User(0, NoText)

SampleNames ==
    { NoText, <<>>,
      <<"C","u","s","t","o","m","e","r">>,
      <<"C","U","S","T","O","M","E","R">>,
      <<"J","o","h","n"," ","D","o","e">>,
      <<"J","a","n","e">> }

\* The lists the user search returns: up to MaxUsers users, each with its own id.
MaxUsers == 3

SampleUserLists ==
    UNION { {[i \in 1..n |-> User(67890 + i, names[i])] : names \in [1..n -> SampleNames]}
            : n \in 0..MaxUsers }

\* u.get('name') and u.get('name').lower() != 'customer'
IsNamed(u) ==
    /\ u.name # NoText
    /\ u.name # <<>>
    /\ lower(u.name) # <<"c","u","s","t","o","m","e","r">>

\* (mutant) the comparison with 'customer' does not lower the name.
_select_best_user_CaseSensitive(users) ==
    LET Named(u) == u.name # NoText /\ u.name # <<>> /\ u.name # <<"c","u","s","t","o","m","e","r">>
        named_users == SelectSeq(users, Named) IN
    IF users = <<>> THEN NoUser
    ELSE IF named_users # <<>> THEN named_users[1]
    ELSE users[1]

\* _select_best_user; named_users is [u for u in users if ...].
_select_best_user(users) ==
    LET named_users == SelectSeq(users, IsNamed) IN
    IF users = <<>> THEN NoUser
    ELSE IF named_users # <<>> THEN named_users[1]
    ELSE users[1]

\* s[:n]
Truncate(s, n) == IF Len(s) <= n THEN s ELSE SubSeq(s, 1, n)

NoRequester == [phone |-> NoText, name |-> NoText]

\* No payload was built.
NoPayload ==
    [keys |-> {}, subject |-> NoText, body |-> NoText, tags |-> NoText,
     requester_id |-> 0, requester |-> NoRequester]

NoFrame == [users |-> <<>>, selected_user |-> NoUser, data |-> NoPayload]

\* _prepare_ticket_data: data["ticket"], with the keys it has.
_prepare_ticket_data(subject, description, tags, requester_phone, selected_user) ==
    LET base == [NoPayload EXCEPT !.keys = {"subject", "comment", "tags"},
                                  !.subject = Truncate(subject, 255),
                                  !.body = Truncate(description, 65535),
                                  !.tags = Truncate(tags, 10)] IN
    IF selected_user # NoUser
    THEN [base EXCEPT !.keys = @ \cup {"requester_id"},
                      !.requester_id = selected_user.id]
    ELSE [base EXCEPT !.keys = @ \cup {"requester"},
                      !.requester = [phone |-> requester_phone,
                                     name |-> "New Caller - Insait AI Agent"]]

\* _make_ticket_request: what the method returns for an outcome of the POST
\* (result 0: None, 1: the response data) or that the exception leaves it.
_make_ticket_request(outcome, escapes) ==
    [result |-> IF outcome = "ok" THEN 1 ELSE 0, raised |-> escapes]

\* ZendeskAPI.create_ticket: validation, then search_user_by_phone (which
\* returns the users found, or [] when its request fails with an exception
\* it catches), _select_best_user, _prepare_ticket_data and the POST.
create_ticket(subject, description, requester_phone, tags) ==
    LET call == [NoCall EXCEPT !.method = "create_ticket", !.subject = subject,
                               !.description = description, !.tags = tags,
                               !.requester_phone = requester_phone] IN
    /\ api_call' = call
    /\ IF ~_validate_ticket_inputs(subject, description, tags, requester_phone)
       THEN /\ api_result' = 0
            /\ http' = <<>>
            /\ api_raised' = FALSE
            /\ api_frame' = NoFrame
       ELSE \E search \in HttpOutcomes : \E search_escapes \in Escapes(search) :
            IF search_escapes
            THEN /\ http' = <<Sent("GET /search.json", search)>>
                 /\ api_result' = 0
                 /\ api_raised' = TRUE
                 /\ api_frame' = NoFrame
            ELSE \E users \in (IF search = "ok" THEN SampleUserLists ELSE {<<>>}) :
                 \E post \in HttpOutcomes : \E post_escapes \in Escapes(post) :
                 LET selected_user == _select_best_user(users)
                     data_ == _prepare_ticket_data(subject, description, tags,
                                                   requester_phone, selected_user)
                     ret == _make_ticket_request(post, post_escapes) IN
                 /\ http' = <<Sent("GET /search.json", search),
                              Sent("POST /tickets.json", post)>>
                 /\ api_frame' = [users |-> users, selected_user |-> selected_user,
                                  data |-> data_]
                 /\ api_result' = ret.result
                 /\ api_raised' = ret.raised

\* ZendeskAPI.update_ticket: the ticket_id check, validation, then the PUT
\* of _make_update_request, which reads nothing of the decoded body.
update_ticket(id, subject, description, tags, status) ==
    LET call == [NoCall EXCEPT !.method = "update_ticket", !.subject = subject,
                               !.description = description, !.tags = tags,
                               !.ticket_id = id, !.status = status] IN
    /\ api_call' = call
    /\ api_frame' = NoFrame
    /\ IF ~ValidTicketId(id)
          \/ ~_validate_update_inputs(subject, description, tags, status)
       THEN /\ api_result' = 0
            /\ http' = <<>>
            /\ api_raised' = FALSE
       ELSE \E put \in HttpOutcomes \ {"unexpected_json"} : \E put_escapes \in Escapes(put) :
            /\ http' = <<Sent("PUT /tickets/{ticket_id}.json", put)>>
            /\ api_result' = IF put = "ok" THEN 1 ELSE 0
            /\ api_raised' = put_escapes

\* A direct call of each method with arguments of every kind, made when the
\* caller has taken the result of the call before.
CreateTicketCall ==
    /\ api_call = NoCall
    /\ safe_delete.pc = "idle"
    /\ UNCHANGED safe_delete
    /\ \E subject \in SampleTexts, description \in SampleTexts,
          requester_phone \in SamplePhones, tags \in SampleTags :
        create_ticket(subject, description, requester_phone, tags)
    /\ UNCHANGED <<env, processed_calls, active_tickets, zendesk_tickets, faults,
                   received, pc, request, data, ticket_id, retry_count, result,
                   response, trace, seen, nth, ghosts, late_commit>>

UpdateTicketCall ==
    /\ api_call = NoCall
    /\ safe_delete.pc = "idle"
    /\ UNCHANGED safe_delete
    /\ \E id \in SampleTicketIds, subject \in {NoText} \cup SampleTexts,
          description \in {NoText} \cup SampleTexts,
          tags \in {NoText} \cup SampleTags, status \in SampleStatuses :
        update_ticket(id, subject, description, tags, status)
    /\ UNCHANGED <<env, processed_calls, active_tickets, zendesk_tickets, faults,
                   received, pc, request, data, ticket_id, retry_count, result,
                   response, trace, seen, nth, ghosts, late_commit>>

\* The caller takes the result; the session is ready for the next call.
ApiReturn ==
    /\ api_call # NoCall
    /\ safe_delete.pc = "idle"
    /\ UNCHANGED safe_delete
    /\ api_call' = NoCall
    /\ api_result' = 0
    /\ http' = <<>>
    /\ api_raised' = FALSE
    /\ api_frame' = NoFrame
    /\ UNCHANGED <<env, processed_calls, active_tickets, zendesk_tickets, faults,
                   received, pc, request, data, ticket_id, retry_count, result,
                   response, trace, seen, nth, ghosts, late_commit>>

\* The tickets a user has: up to MaxTickets tickets, each with its own id.
MaxTickets == 3

SampleTicketLists ==
    UNION { {[i \in 1..n |-> [id |-> 12344 + i, status |-> st[i]]]
                : st \in [1..n -> {"open", "pending", "closed"}]}
            : n \in 0..MaxTickets }

NoSafeDelete ==
    [pc |-> "idle", user_tickets |-> <<>>, tickets |-> <<>>, i |-> 1,
     calls |-> <<>>, ret |-> FALSE, raised |-> FALSE]

Called(op, id, ok) == [op |-> op, id |-> id, ok |-> ok]

\* safe_delete_user up to the loop: get_user_tickets returns the tickets of
\* the user, or [] when its request fails with a RequestException; an
\* exception of another type raised while the response is read leaves
\* safe_delete_user.
SafeDeleteUserCall ==
    /\ api_call = NoCall
    /\ safe_delete.pc = "idle"
    /\ \E user_tickets \in SampleTicketLists :
       \E get \in HttpOutcomes : \E get_escapes \in Escapes(get) :
        safe_delete' =
            [NoSafeDelete EXCEPT
                !.user_tickets = user_tickets,
                !.tickets = IF get = "ok" THEN user_tickets ELSE <<>>,
                !.calls = <<Called("get_user_tickets", 0, get = "ok")>>,
                !.raised = get_escapes,
                !.pc = IF get_escapes THEN "done" ELSE "loop"]
    /\ UNCHANGED <<api_call, api_result, http, api_raised, api_frame>>
    /\ UNCHANGED <<env, processed_calls, active_tickets, zendesk_tickets, faults,
                   received, pc, request, data, ticket_id, retry_count, result,
                   response, trace, seen, nth, ghosts, late_commit>>

\* One iteration of the loop of safe_delete_user: a ticket that is 'closed'
\* is passed over, another one is handed to close_ticket, which is
\* update_ticket(ticket_id, status="closed", description=...) is not None.
CloseNextTicket ==
    /\ safe_delete.pc = "loop"
    /\ safe_delete.i <= Len(safe_delete.tickets)
    /\ LET ticket == safe_delete.tickets[safe_delete.i] IN
       IF ticket.status = "closed"
       THEN /\ safe_delete' = [safe_delete EXCEPT !.i = @ + 1]
            /\ UNCHANGED <<api_call, api_result, http, api_raised, api_frame>>
       ELSE /\ update_ticket([is_int |-> TRUE, value |-> ticket.id], NoText,
                             <<"T","i","c","k","e","t"," ","c","l","o","s","e","d"," ","a","u","t","o",
                               "m","a","t","i","c","a","l","l","y"," ","a","s"," ","p","a","r","t"," ",
                               "o","f"," ","u","s","e","r"," ","c","l","e","a","n","u","p",".">>,
                             NoText, <<"c","l","o","s","e","d">>)
            /\ safe_delete' =
                 [safe_delete EXCEPT
                    !.calls = Append(@, Called("close_ticket", ticket.id, api_result' = 1)),
                    !.i = @ + 1,
                    !.raised = api_raised',
                    !.pc = IF api_raised' \/ api_result' # 1 THEN "done" ELSE "loop"]
    /\ UNCHANGED <<env, processed_calls, active_tickets, zendesk_tickets, faults,
                   received, pc, request, data, ticket_id, retry_count, result,
                   response, trace, seen, nth, ghosts, late_commit>>

\* safe_delete_user after the loop: delete_user, whose result is returned.
DeleteUser ==
    /\ safe_delete.pc = "loop"
    /\ safe_delete.i > Len(safe_delete.tickets)
    /\ \E del \in {"ok", "timeout", "connection_error", "error_status"} :
        safe_delete' =
            [safe_delete EXCEPT
                !.calls = Append(@, Called("delete_user", 0, del = "ok")),
                !.ret = (del = "ok"),
                !.pc = "done"]
    /\ UNCHANGED <<api_call, api_result, http, api_raised, api_frame>>
    /\ UNCHANGED <<env, processed_calls, active_tickets, zendesk_tickets, faults,
                   received, pc, request, data, ticket_id, retry_count, result,
                   response, trace, seen, nth, ghosts, late_commit>>

\* The caller takes the result of safe_delete_user.
SafeDeleteReturn ==
    /\ safe_delete.pc = "done"
    /\ safe_delete' = NoSafeDelete
    /\ api_call' = NoCall
    /\ api_result' = 0
    /\ http' = <<>>
    /\ api_raised' = FALSE
    /\ api_frame' = NoFrame
    /\ UNCHANGED <<env, processed_calls, active_tickets, zendesk_tickets, faults,
                   received, pc, request, data, ticket_id, retry_count, result,
                   response, trace, seen, nth, ghosts, late_commit>>

\* ----------------------------------------------------------- specification
\* Unset, or ' +15551234567 , +15559876543 '.
AllowListSettings == {<<>>, <<" ">> \o P1 \o <<" ", ",", " ">> \o P2 \o <<" ">>}

InitCommon ==
    /\ processed_calls = [k \in Keys |-> 0]
    /\ active_tickets = [p \in Callers |-> 0]
    /\ zendesk_tickets = <<>>
    /\ faults = [processed_calls |-> 0, active_tickets |-> 0]
    /\ received = 0
    /\ pc = [r \in Workers |-> "idle"]
    /\ data = [r \in Workers |-> NoData]
    /\ request = [r \in Workers |-> NoData]
    /\ ticket_id = [r \in Workers |-> 0]
    /\ retry_count = [r \in Workers |-> 0]
    /\ result = [r \in Workers |-> 0]
    /\ response = [r \in Workers |-> NoResponse]
    /\ trace = [r \in Workers |-> <<>>]
    /\ seen = [r \in Workers |-> 0]
    /\ nth = [r \in Workers |-> 0]
    /\ late_commit = [r \in Workers |-> 0]
    /\ api_call = NoCall
    /\ api_result = 0
    /\ http = <<>>
    /\ api_raised = FALSE
    /\ api_frame = NoFrame
    /\ safe_delete = NoSafeDelete
    /\ dispatched = [p \in Pairs |-> 0]
    /\ create_calls = [k \in Keys |-> 0]
    /\ succeeded = {}

\* Concurrent handlers for one caller over a reachable store, no allow-list.
Init ==
    /\ InitCommon
    /\ sequential = FALSE
    /\ inputs = {d \in CompletePayloads : d.call.from_number = P1}
    /\ firestore_client = TRUE
    /\ store_reliable = TRUE
    /\ ALLOWED_PHONE_NUMBERS = <<>>

\* One delivery at a time, two callers, with or without a Firestore client and
\* an allow-list, store calls that may raise.
SeqInit ==
    /\ InitCommon
    /\ sequential = TRUE
    /\ inputs = CompletePayloads
    /\ firestore_client \in BOOLEAN
    /\ store_reliable = FALSE
    /\ ALLOWED_PHONE_NUMBERS \in AllowListSettings

\* Values of ALLOWED_PHONE_NUMBERS, each with the entries it lists: unset or
\* empty, "+15551234567,+15559876543", the same with blanks around the
\* entries, "+19999999999" alone, and a single blank.
AllowListCases ==
    { [setting |-> <<>>, entries |-> {}],
      [setting |-> P1 \o <<",">> \o P2, entries |-> {P1, P2}],
      [setting |-> <<" ">> \o P1 \o <<" ", ",", " ">> \o P2 \o <<" ">>,
       entries |-> {P1, P2}],
      [setting |-> P9, entries |-> {P9}],
      [setting |-> <<" ">>, entries |-> {<<>>}] }

\* One delivery at a time for call X of either caller, under each value of
\* ALLOWED_PHONE_NUMBERS; a reachable store.
ListInit ==
    /\ InitCommon
    /\ sequential = TRUE
    /\ inputs = {d \in CompletePayloads : d.call.call_id = "X"}
    /\ firestore_client = TRUE
    /\ store_reliable = TRUE
    /\ ALLOWED_PHONE_NUMBERS \in {c.setting : c \in AllowListCases}

\* One delivery at a time from a sender that also delivers payloads lacking
\* fields and payloads validate_call_data turns down; one caller, one call, a
\* reachable store.
WildInit ==
    /\ InitCommon
    /\ sequential = TRUE
    /\ inputs = {d \in Payloads : d.call.from_number = P1 /\ d.call.call_id = "X"}
                \cup Malformed \cup Oversized
                \cup {Payload("call_started", "X", PDirty,
                              AllFields \ {"end_timestamp", "duration_ms"})}
    /\ firestore_client = TRUE
    /\ store_reliable = TRUE
    /\ ALLOWED_PHONE_NUMBERS = <<>>

\* Concurrent handlers for the events of one caller: both events of call X
\* and call_started of a second call Y, a reachable store.
FairInit ==
    /\ InitCommon
    /\ sequential = FALSE
    /\ inputs = {d \in CompletePayloads :
                    /\ d.call.from_number = P1
                    /\ <<d.event, d.call.call_id>> # <<"call_ended", "Y">>}
    /\ firestore_client = TRUE
    /\ store_reliable = TRUE
    /\ ALLOWED_PHONE_NUMBERS = <<>>

Next ==
    \E r \in Workers :
        \/ Receive(r)
        \/ CheckAuthorization(r)
        \/ CheckProcessedCall(r)
        \/ StoreProcessedCall(r)
        \/ HandleCallStarted(r)
        \/ StoreActiveTicket(r)
        \/ HandleCallEnded(r)
        \/ RetryGetActiveTicket(r)
        \/ CreateNewTicketForEndedCall(r)
        \/ UpdateExistingTicket(r)
        \/ RemoveActiveTicket(r)

\* Calls of the two ZendeskAPI methods, one after the other.
ApiNext ==
    \/ CreateTicketCall
    \/ UpdateTicketCall
    \/ ApiReturn
    \/ SafeDeleteUserCall
    \/ CloseNextTicket
    \/ DeleteUser
    \/ SafeDeleteReturn

\* No webhook delivery is under way while the methods are called.
ApiInit ==
    /\ InitCommon
    /\ sequential = TRUE
    /\ inputs = {}
    /\ firestore_client = TRUE
    /\ store_reliable = TRUE
    /\ ALLOWED_PHONE_NUMBERS = <<>>

ApiSpec == ApiInit /\ [][ApiNext]_vars

\* Handlers run concurrently, one worker per request in flight.
Spec == Init /\ [][Next]_vars

\* The deliveries are handled one after the other.
SeqSpec == SeqInit /\ [][Next]_vars

\* The deliveries are handled one after the other under each allow-list.
ListSpec == ListInit /\ [][Next]_vars

\* The deliveries, malformed ones among them, are handled one after the other.
WildSpec == WildInit /\ [][Next]_vars

\* The steps of the handler of a request that worker r has admitted.
Handle(r) ==
    \/ CheckAuthorization(r)
    \/ CheckProcessedCall(r)
    \/ StoreProcessedCall(r)
    \/ HandleCallStarted(r)
    \/ StoreActiveTicket(r)
    \/ HandleCallEnded(r)
    \/ RetryGetActiveTicket(r)
    \/ CreateNewTicketForEndedCall(r)
    \/ UpdateExistingTicket(r)
    \/ RemoveActiveTicket(r)

\* Concurrent handlers, each on a thread of its own that keeps being
\* scheduled: time.sleep returns and every store and ticket call returns or
\* raises, so a handler that can take its next step eventually takes it.
\* Deliveries themselves may stop arriving at any time.
FairSpec == FairInit /\ [][Next]_vars /\ \A r \in Workers : WF_vars(Handle(r))

\* ------------------------------------------------------- reading a trace
TicketOps == {"create_ticket", "update_ticket"}
LedgerOps == {"check_processed_call", "store_processed_call"}
MappingOps == {"store_active_ticket", "get_active_ticket", "remove_active_ticket",
               "get_all_active_tickets"}

\* The positions of the calls named in `names` in the trace of r.
Calls(r, names) == {i \in DOMAIN trace[r] : trace[r][i].op \in names}

Count(r, names) == Cardinality(Calls(r, names))

Answered(r) == pc[r] = "done"

AnsweredDuplicate(r) ==
    Answered(r) /\ response[r] = [status |-> 200, message |-> DuplicateMessage]

\* ---------------------------------------------------------------- claims

\* C1: with the ledger store reachable, when the same call_started event is
\* delivered again after its first delivery was handled, create_ticket has been
\* called exactly once for the event over all its deliveries, and the repeated
\* delivery is answered 200 'Duplicate event-call pair, ignored' having made no
\* ticket call, no ledger write and no mapping call.
C1_SecondStartedIsNoOp ==
    \A r \in Workers :
        (/\ Answered(r)
         /\ event_of(r) = "call_started"
         /\ nth[r] >= 2
         /\ firestore_client
         /\ faults.processed_calls = 0)
        => /\ AnsweredDuplicate(r)
           /\ Calls(r, TicketOps \cup MappingOps \cup {"store_processed_call"}) = {}
           /\ create_calls[key_of(r)] = 1

C1_Witness ==
    \E r \in Workers :
        /\ AnsweredDuplicate(r)
        /\ event_of(r) = "call_started"
        /\ nth[r] = 2
        /\ firestore_client
        /\ faults.processed_calls = 0
        /\ create_calls[key_of(r)] = 1

\* The mapping lookups and the delete of r all reached the store.
MappingCallsReached(r) ==
    \A i \in Calls(r, {"get_active_ticket", "remove_active_ticket"}) : trace[r][i].ok

\* What C2 states of an answered call_ended request r that found the mapping
\* phone -> seen[r] in the store when it arrived: update_ticket was called on
\* that ticket (giving it status 'open'), create_ticket was not called, the
\* mapping was removed after the update and is absent now.
UpdatedAndUnmapped(r) ==
    /\ \E i \in Calls(r, {"update_ticket"}) :
        /\ trace[r][i].arg = seen[r]
        /\ trace[r][i].ok => zendesk_tickets[seen[r]].status = "open"
        /\ \E j \in Calls(r, {"remove_active_ticket"}) : j > i
        /\ \A j \in Calls(r, {"remove_active_ticket"}) : j > i
    /\ Calls(r, {"create_ticket"}) = {}
    /\ active_tickets[phone_of(r)] = 0

Range(f) == {f[i] : i \in DOMAIN f}

\* C3: a call_ended delivery that is not a duplicate is never answered without
\* exactly one ticket call having been made; when every lookup of the handler
\* missed, the handler made the initial lookup and all max_retries retries and
\* then called create_ticket once, for a ticket tagged 'completed' that holds
\* the start and the end time of the call, and the answer is 200 when the
\* creation succeeded (500 when it failed).
C3_FallbackCreatesTicket ==
    \A r \in Workers :
        (Answered(r) /\ event_of(r) = "call_ended" /\ ~AnsweredDuplicate(r))
        => /\ Count(r, TicketOps) = 1
           /\ (\A i \in Calls(r, {"get_active_ticket"}) : trace[r][i].arg = 0)
              => /\ Count(r, {"get_active_ticket"}) = max_retries + 1
                 /\ Count(r, {"create_ticket"}) = 1
                 /\ \A i \in Calls(r, {"create_ticket"}) :
                     IF trace[r][i].ok
                     THEN /\ response[r].status = 200
                          /\ response[r].message # DuplicateMessage
                          /\ LET t == zendesk_tickets[trace[r][i].arg] IN
                              /\ "completed" \in Range(t.tags)
                              /\ t.requester_phone = phone_of(r)
                              /\ t.description.start_time * 1000 = data[r].call.start_timestamp
                              /\ t.description.end_time * 1000 = data[r].call.end_timestamp
                              /\ t.updates = 0
                     ELSE response[r].status = 500

C3_Witness ==
    \E r \in Workers :
        /\ Answered(r)
        /\ event_of(r) = "call_ended"
        /\ \A i \in Calls(r, {"get_active_ticket"}) : trace[r][i].arg = 0
        /\ Count(r, {"get_active_ticket"}) = max_retries + 1
        /\ \E i \in Calls(r, {"create_ticket"}) : trace[r][i].ok
        /\ response[r].status = 200

\* C4: for every delivery, the ledger record for its key is written only after
\* the handler attempted the event's ticket operation: in no reachable state
\* has a delivery made its store_processed_call call without an earlier
\* create_ticket or update_ticket call of its own.
C4_LedgerAfterTicketOp ==
    \A r \in Workers :
        \A i \in Calls(r, {"store_processed_call"}) :
            \E j \in Calls(r, TicketOps) : j < i

\* C5: whenever a delivery is answered with the duplicate confirmation, the
\* ticket operation of an earlier delivery of the same (event, call_id) pair
\* succeeded; a pair whose deliveries all failed is processed again.
C5_DuplicateMeansHandled ==
    \A r \in Workers :
        AnsweredDuplicate(r) => key_of(r) \in succeeded

\* C6: the mapping of a caller is written only after create_ticket succeeded
\* in the same call_started handler; a call_ended handler deletes it only
\* after its update_ticket succeeded; and when update_ticket failed the
\* mapping is still present once the handler has answered.
C6_MappingFollowsTicketSuccess ==
    \A r \in Workers :
        /\ \A i \in Calls(r, {"store_active_ticket"}) :
            \E j \in Calls(r, {"create_ticket"}) : j < i /\ trace[r][j].ok
        /\ \A i \in Calls(r, {"remove_active_ticket"}) :
            \E j \in Calls(r, {"update_ticket"}) : j < i /\ trace[r][j].ok
        /\ (/\ Answered(r)
            /\ \E j \in Calls(r, {"update_ticket"}) : ~trace[r][j].ok)
           => active_tickets[phone_of(r)] # 0

\* Tickets of the ticket system by the path that last wrote them.
FallbackTickets ==
    {t \in DOMAIN zendesk_tickets :
        zendesk_tickets[t].description.heading = "Completed Call Information"}

CorrelatedTickets ==
    {t \in DOMAIN zendesk_tickets :
        zendesk_tickets[t].updates > 0}

\* C7: the tag set of a fallback ticket differs from the tag set a ticket has
\* after the correlated update, so that the two can be told apart by tags.
C7_FallbackTaggedDistinctly ==
    \A f \in FallbackTickets : \A c \in CorrelatedTickets :
        Range(zendesk_tickets[f].tags) # Range(zendesk_tickets[c].tags)

\* Tickets that a call_started handler created for a caller.
StartedTickets(phone) ==
    {t \in DOMAIN zendesk_tickets :
        /\ zendesk_tickets[t].requester_phone = phone
        /\ zendesk_tickets[t].description.call_id # ""}

\* T2 was created for the caller after a ticket T1 of another call.
SecondStarted(phone, t2) ==
    /\ t2 \in StartedTickets(phone)
    /\ \E t1 \in StartedTickets(phone) :
        /\ t1 < t2
        /\ zendesk_tickets[t1].description.call_id # zendesk_tickets[t2].description.call_id

LatestStarted(phone) ==
    CHOOSE t \in StartedTickets(phone) : \A u \in StartedTickets(phone) : u <= t

\* What C8 states of handler r: when r is the call_started handler that has
\* just created the caller's second ticket T2, the mapping of the caller
\* points to T2; when r is a call_ended handler for a caller with two such
\* tickets, any update it made was of T2, the later one.
SecondTicketMapped(r) ==
    /\ (/\ event_of(r) = "call_started"
        /\ response[r].status = 201
        /\ SecondStarted(phone_of(r), result[r]))
       => active_tickets[phone_of(r)] = result[r]
    /\ (/\ event_of(r) = "call_ended"
        /\ \E t \in StartedTickets(phone_of(r)) : SecondStarted(phone_of(r), t))
       => \A i \in Calls(r, {"update_ticket"}) :
            trace[r][i].arg = LatestStarted(phone_of(r))

C9_AllowListFirst ==
    \A r \in Workers :
        (Answered(r) /\ ALLOWED_PHONE_NUMBERS # <<>>)
        => /\ phone_of(r) = P9
              => response[r].status = 403 /\ trace[r] = <<>>
           /\ phone_of(r) = P1
              => /\ response[r].status # 403
                 /\ trace[r] # <<>>
                 /\ trace[r][1].op = "check_processed_call"
                 /\ (/\ event_of(r) = "call_started"
                     /\ \E i \in Calls(r, {"create_ticket"}) : trace[r][i].ok)
                    => response[r].status = 201

C9_Witness ==
    /\ ALLOWED_PHONE_NUMBERS # <<>>
    /\ \E r \in Workers :
        /\ Answered(r)
        /\ phone_of(r) = P9
        /\ response[r].status = 403
    /\ \E k \in Keys : k \in succeeded /\ processed_calls[k] # 0

Handling(r) == pc[r] \notin {"idle", "done"}

\* C11: every call_ended request eventually terminates with exactly one
\* response, whatever concurrent handlers do to the caller's mapping: a
\* call_ended handler that was dispatched is eventually answered, having left
\* the retry loop by the update path or the fallback path (a ticket call is in
\* its trace), and no response exists for a request while it is being handled.
C11_CallEndedTerminates ==
    /\ \A r \in Workers :
        (pc[r] = "call_ended")
            ~> (Answered(r) /\ response[r] # NoResponse /\ Count(r, TicketOps) = 1)
    /\ [](\A r \in Workers : Handling(r) => response[r] = NoResponse)

\* A call_ended handler went through all retries and was answered while the
\* other worker had created a ticket for the same caller in the meantime.
C11_Witness ==
    \E r \in Workers : \E o \in Workers \ {r} :
        /\ Answered(r)
        /\ event_of(r) = "call_ended"
        /\ response[r] # NoResponse
        /\ Count(r, {"sleep"}) >= 1
        /\ Count(r, TicketOps) = 1
        /\ event_of(o) = "call_started"
        /\ phone_of(o) = phone_of(r)
        /\ Calls(o, {"store_active_ticket"}) # {}

\* C12: a request makes at most one ticket call (one create_ticket or one
\* update_ticket, never a second attempt), and a request whose ticket call
\* failed is answered 500, be it the create of call_started, the update of
\* call_ended or the fallback create of call_ended.
C12_OneTicketCallFailureIs500 ==
    \A r \in Workers :
        /\ Count(r, TicketOps) <= 1
        /\ (Answered(r) /\ \E i \in Calls(r, TicketOps) : ~trace[r][i].ok)
           => response[r].status = 500

C12_Witness ==
    \E r \in Workers :
        /\ Answered(r)
        /\ event_of(r) = "call_ended"
        /\ \E i \in Calls(r, {"update_ticket"}) : ~trace[r][i].ok
        /\ response[r].status = 500

\* C13: a delivery that hits the ledger changes nothing: the step in which
\* check_processed_call finds the record answers 200, leaves the ledger, the
\* mappings and the tickets as they were, and the handler has made no call
\* besides that one ledger read.
C13_DuplicateChangesNothing ==
    [][\A r \in Workers :
        (pc[r] = "check" /\ pc'[r] = "done")
        => /\ response'[r] = [status |-> 200, message |-> DuplicateMessage]
           /\ trace'[r] = <<Op("check_processed_call", TRUE, 0)>>
           /\ UNCHANGED <<processed_calls, active_tickets, zendesk_tickets>>]_vars

\* A call_ended delivery was answered as a duplicate while the ledger held the
\* record of the first delivery and the caller had a mapping.
C13_Witness ==
    \E r \in Workers :
        /\ AnsweredDuplicate(r)
        /\ event_of(r) = "call_ended"
        /\ trace[r] = <<Op("check_processed_call", TRUE, 0)>>
        /\ processed_calls[key_of(r)] = 1
        /\ nth[r] >= 2
        /\ active_tickets[phone_of(r)] # 0

\* The payload is of one of the kinds C14 lists.
Rejected(d) ==
    \/ ~d.is_dict
    \/ "event" \notin d.keys
    \/ "call" \notin d.keys
    \/ ~d.call.is_dict
    \/ "call_id" \notin d.call.keys
    \/ "from_number" \notin d.call.keys
    \/ d.call.from_number \in {PBad, <<>>}
    \/ d.event \notin {"call_started", "call_ended"}

\* C14: a payload that is not an object, lacks 'event' or 'call', lacks
\* call_id or from_number, has a from_number of invalid format or an event
\* type other than call_started/call_ended is answered 400 at once: the
\* request is never being handled, its handler has made no ledger, mapping or
\* ticket call, and the step that receives it leaves ledger, mappings and
\* tickets unchanged.
C14_MalformedIs400 ==
    /\ [](\A r \in Workers :
            (data[r] # NoData /\ Rejected(data[r]))
            => /\ Answered(r)
               /\ response[r].status = 400
               /\ trace[r] = <<>>)
    /\ [][\A r \in Workers :
            (data'[r] # data[r] /\ Rejected(data'[r]))
            => UNCHANGED <<processed_calls, active_tickets, zendesk_tickets>>]_vars

\* A malformed payload was answered 400 after an earlier event had left a
\* ledger record, a mapping and a ticket.
C14_Witness ==
    \E r \in Workers :
        /\ Answered(r)
        /\ Rejected(data[r])
        /\ data[r] # NoData
        /\ response[r].status = 400
        /\ trace[r] = <<>>
        /\ active_tickets[P1] # 0
        /\ processed_calls[event_call_key("call_started", "X")] # 0
        /\ Len(zendesk_tickets) = 1

\* The ticket call of r succeeded.
TicketCallSucceeded(r) == \E i \in Calls(r, TicketOps) : trace[r][i].ok

\* C15: ledger failures never fail a request: a handler whose
\* check_processed_call or store_processed_call failed (no client, or the
\* store raised) is not answered as a duplicate, has performed the ticket
\* operation of its event, and is answered with success when that operation
\* succeeded.
C15_LedgerFailureProceeds ==
    \A r \in Workers :
        (Answered(r) /\ \E i \in Calls(r, LedgerOps) : ~trace[r][i].ok)
        => /\ ~AnsweredDuplicate(r)
           /\ Count(r, TicketOps) = 1
           /\ TicketCallSucceeded(r) => response[r].status \in {200, 201}

\* With a client, the ledger read of a redelivered event raised and the event
\* was processed a second time, successfully.
C15_Witness ==
    \E r \in Workers :
        /\ Answered(r)
        /\ firestore_client
        /\ nth[r] = 2
        /\ ~trace[r][1].ok
        /\ trace[r][1].op = "check_processed_call"
        /\ TicketCallSucceeded(r)
        /\ response[r].status \in {200, 201}

\* C16: failures of the mapping store never fail a request: a call_started
\* whose create_ticket succeeded is answered 201 also when store_active_ticket
\* failed; a call_ended all of whose lookups failed goes through the initial
\* lookup and the max_retries retries and then calls create_ticket for the
\* fallback ticket, answered 200 when that succeeds; and a failed
\* remove_active_ticket does not change the answer to a successful update.
C16_MappingFailureProceeds ==
    \A r \in Workers :
        Answered(r)
        => /\ (/\ event_of(r) = "call_started"
               /\ \E i \in Calls(r, {"create_ticket"}) : trace[r][i].ok
               /\ \E i \in Calls(r, {"store_active_ticket"}) : ~trace[r][i].ok)
              => response[r].status = 201
           /\ (/\ event_of(r) = "call_ended"
               /\ Calls(r, {"get_active_ticket"}) # {}
               /\ \A i \in Calls(r, {"get_active_ticket"}) : ~trace[r][i].ok)
              => /\ Count(r, {"get_active_ticket"}) = max_retries + 1
                 /\ Count(r, {"create_ticket"}) = 1
                 /\ Count(r, {"update_ticket"}) = 0
                 /\ TicketCallSucceeded(r) => response[r].status = 200
           /\ (/\ event_of(r) = "call_ended"
               /\ \E i \in Calls(r, {"remove_active_ticket"}) : ~trace[r][i].ok
               /\ TicketCallSucceeded(r))
              => response[r].status = 200

\* Without a client, a call_ended was answered 200 with a fallback ticket
\* after six failed lookups, a call_started having been answered 201 before.
C16_Witness ==
    \E r \in Workers :
        /\ Answered(r)
        /\ ~firestore_client
        /\ event_of(r) = "call_ended"
        /\ Count(r, {"get_active_ticket"}) = max_retries + 1
        /\ \A i \in Calls(r, {"get_active_ticket"}) : ~trace[r][i].ok
        /\ TicketCallSucceeded(r)
        /\ response[r].status = 200
        /\ \E t \in StartedTickets(phone_of(r)) : t < result[r]

\* C17: deduplication is per (event type, call_id): distinct pairs have
\* distinct ledger keys, and a delivery is answered as a duplicate only if an
\* earlier delivery of the same event type and the same call_id was admitted;
\* having processed call_started for X makes neither call_ended for X nor an
\* event of another call a duplicate.
C17_DedupPerEventAndCall ==
    /\ \A p \in Pairs : \A q \in Pairs :
        p # q => event_call_key(p[1], p[2]) # event_call_key(q[1], q[2])
    /\ \A r \in Workers :
        AnsweredDuplicate(r) => dispatched[pair_of(r)] >= 2

\* With call_started of X and call_started of Y in the ledger, the first
\* call_ended for X is processed, not ignored.
C17_Witness ==
    \E r \in Workers :
        /\ Answered(r)
        /\ pair_of(r) = <<"call_ended", "X">>
        /\ dispatched[pair_of(r)] = 1
        /\ processed_calls[event_call_key("call_started", "X")] # 0
        /\ processed_calls[event_call_key("call_started", "Y")] # 0
        /\ ~AnsweredDuplicate(r)
        /\ TicketCallSucceeded(r)

\* C18: the ledger is append-only under any interleaving of handlers: a
\* record that exists is neither overwritten (its timestamp stays the one of
\* the first write) nor deleted by any step of any handler.
C18_LedgerAppendOnly ==
    [][\A k \in Keys :
        processed_calls[k] # 0 => processed_calls'[k] = processed_calls[k]]_vars

\* C19: when two deliveries of the same (event type, call_id) are handled
\* concurrently with a reachable ledger, at most one of the two handlers
\* passes the dedup check and makes a ticket call.
C19_OnePassesDedup ==
    \A r \in Workers : \A o \in Workers \ {r} :
        (/\ data[r] # NoData
         /\ data[o] # NoData
         /\ pair_of(r) = pair_of(o)
         /\ firestore_client
         /\ faults.processed_calls = 0)
        => ~(Calls(r, TicketOps) # {} /\ Calls(o, TicketOps) # {})

\* call_ended for call c has been processed: the ticket call of a delivery
\* of it succeeded and no handler is still working on one.
EndedProcessed(c) ==
    /\ event_call_key("call_ended", c) \in succeeded
    /\ \A r \in Workers : Handling(r) => pair_of(r) # <<"call_ended", c>>

\* C20: a mapping exists only in the open interval of its call: in every
\* reachable state with a reachable mapping store, the mapping of a caller
\* points to the ticket that call_started of a call X created only if
\* call_ended of X has not been processed yet, whatever the order in which
\* the two events were delivered.
C20_MappingOnlyWhileCallOpen ==
    \A p \in Phones :
        (/\ firestore_client
         /\ faults.active_tickets = 0
         /\ active_tickets[p] # 0)
        => ~EndedProcessed(zendesk_tickets[active_tickets[p]].description.call_id)

\* C21: if the mapping of caller P is stored by a call_started handler after
\* a call_ended handler for P has started and before that handler's last
\* lookup, the call_ended handler updates the ticket of that mapping and does
\* not create a fallback ticket.
C21_LateMappingIsFound ==
    \A r \in Workers :
        (Answered(r) /\ event_of(r) = "call_ended" /\ late_commit[r] # 0
         /\ Calls(r, {"get_active_ticket"}) # {})
        => /\ \E i \in Calls(r, {"update_ticket"}) : trace[r][i].arg = late_commit[r]
           /\ Calls(r, {"create_ticket"}) = {}

\* The entries the configured value of ALLOWED_PHONE_NUMBERS lists.
ListedEntries ==
    (CHOOSE c \in AllowListCases : c.setting = ALLOWED_PHONE_NUMBERS).entries

\* C22: is_phone_number_allowed returns true for every number when
\* ALLOWED_PHONE_NUMBERS is unset or empty, and otherwise exactly for the
\* numbers equal to one of its comma-separated entries with the surrounding
\* whitespace stripped; a request is refused with 403 exactly when its
\* from_number is not allowed in that sense.
C22_AllowedIffListed ==
    /\ \A p \in {P1, P2, P9, PBad, <<>>} :
        is_phone_number_allowed(p)
            <=> (ALLOWED_PHONE_NUMBERS = <<>> \/ p \in ListedEntries)
    /\ \A r \in Workers :
        Answered(r)
        => (response[r].status = 403
                <=> (ALLOWED_PHONE_NUMBERS # <<>> /\ phone_of(r) \notin ListedEntries))

\* Under ALLOWED_PHONE_NUMBERS = " " (one blank), which is set and lists no
\* number, the event of +15551234567 was refused.
C22_Witness ==
    \E r \in Workers :
        /\ ALLOWED_PHONE_NUMBERS = <<" ">>
        /\ Answered(r)
        /\ phone_of(r) = P1
        /\ response[r].status = 403
        /\ ~is_phone_number_allowed(P1)
        /\ is_phone_number_allowed(<<>>)

\* '+' followed by 10 to 15 digits.
PlusAndDigits(s) ==
    /\ Len(s) \in 11..16
    /\ s[1] = "+"
    /\ \A i \in 2..Len(s) : s[i] \in Digits

\* The from_number field of the request of r, when it has one.
HasFromNumber(r) ==
    data[r] # NoData /\ data[r].is_dict /\ data[r].call.is_dict
    /\ "from_number" \in data[r].call.keys

\* C23: validate_phone_number returns true exactly for the strings made of
\* '+' followed by 10 to 15 digits: numbers without the '+', with too few
\* digits, with a letter or another non-digit character, and the empty
\* string are rejected. Stated of every from_number a request arrived with.
C23_ValidIffPlusAndDigits ==
    \A r \in Workers :
        HasFromNumber(r)
        => (validate_phone_number(phone_of(r)) <=> PlusAndDigits(phone_of(r)))

\* The request of r was turned down for its size / for its content type.
TooLarge(r) ==
    request[r] # NoData /\ request[r].content_length > MaxContentLength

NotJson(r) ==
    request[r] # NoData /\ request[r].content_length <= MaxContentLength
    /\ ~request[r].is_json

\* C24: a request whose content length exceeds 1 MiB is answered 413 and a
\* request whose content type is not JSON is answered 400, before anything
\* else: the request is never being handled (no allow-list check), its body
\* was never read or validated, its handler has made no ledger, mapping or
\* ticket call, and the step that receives it leaves ledger, mappings and
\* tickets unchanged.
C24_EnvelopeCheckedFirst ==
    /\ [](\A r \in Workers :
            /\ TooLarge(r)
               => /\ Answered(r)
                  /\ response[r] = [status |-> 413, message |-> "Request too large"]
                  /\ data[r] = NoData
                  /\ trace[r] = <<>>
            /\ NotJson(r)
               => /\ Answered(r)
                  /\ response[r] = [status |-> 400,
                                    message |-> "Content-Type must be application/json"]
                  /\ data[r] = NoData
                  /\ trace[r] = <<>>)
    /\ [][\A r \in Workers :
            (request'[r] # request[r] /\ (TooLarge(r)' \/ NotJson(r)'))
            => UNCHANGED <<processed_calls, active_tickets, zendesk_tickets>>]_vars

\* A request that is both too large and not JSON, with a body that is not an
\* object, was answered 413 after an earlier event had left a ledger record
\* and a ticket.
C24_Witness ==
    \E r \in Workers :
        /\ TooLarge(r)
        /\ ~request[r].is_json \/ ~request[r].is_dict
        /\ Answered(r)
        /\ response[r].status = 413
        /\ \E k \in Keys : processed_calls[k] # 0
        /\ zendesk_tickets # <<>>

\* The handler of r stopped at a field its payload lacks (the KeyError that
\* create_zendesk_ticket answers with 500).
LacksNeededField(r) ==
    /\ Answered(r)
    /\ data[r] # NoData
    /\ ~IsComplete(data[r])
    /\ response[r] = [status |-> 500, message |-> "Internal server error"]

\* C25: a delivery that lacks a field its handler needs is rejected with no
\* side effect: its handler has written no ledger record, has neither read
\* nor deleted a mapping, and (one delivery at a time) the ledger holds no
\* record of its event once it is answered, so that a complete redelivery
\* is not taken for a duplicate.
C25_IncompleteHasNoEffect ==
    \A r \in Workers :
        LacksNeededField(r)
        => /\ Calls(r, {"store_processed_call"}) = {}
           /\ Calls(r, {"get_active_ticket", "remove_active_ticket"}) = {}
           /\ processed_calls[key_of(r)] = 0

\* C26: every ticket a call_started handler created is updated to the
\* completed state once call_ended of the same call has been handled with a
\* successful ticket operation, in whichever order the two events arrived:
\* when no request is being handled any more, no such ticket is left without
\* an update.
C26_StartedTicketGetsCompleted ==
    \A t \in DOMAIN zendesk_tickets :
        (/\ zendesk_tickets[t].description.call_id # ""
         /\ EndedProcessed(zendesk_tickets[t].description.call_id)
         /\ \A r \in Workers : ~Handling(r))
        => zendesk_tickets[t].updates > 0

\* C27: whenever a call_ended event of call X takes the update path, the
\* ticket it passes to update_ticket (and whose mapping it then removes) is
\* the one the call_started event of the same call X created, never a
\* ticket created for another call of the caller.
C27_UpdatesTicketOfSameCall ==
    \A r \in Workers :
        \A i \in Calls(r, {"update_ticket"}) :
            zendesk_tickets[trace[r][i].arg].description.call_id = data[r].call.call_id

\* C28: the mapping a call_ended handler removes is the mapping whose ticket
\* it has just passed to update_ticket: every step that deletes the mapping
\* of a caller is the remove_active_ticket call of a handler whose ticket_id
\* is the ticket of that mapping, so a mapping written by a call_started
\* handler after the lookup is not deleted.
C28_RemovesOwnMapping ==
    [][\A p \in Phones :
            (active_tickets[p] # 0 /\ active_tickets'[p] = 0)
            => \E r \in Workers :
                /\ pc[r] = "remove"
                /\ pc'[r] = "done"
                /\ phone_of(r) = p
                /\ ticket_id[r] = active_tickets[p]]_vars

\* The tickets the handler of r has passed to update_ticket.
UpdatedBy(r) == {trace[r][i].arg : i \in Calls(r, {"update_ticket"})}

\* C29: under any interleaving of call_ended handlers for the same caller
\* whose events have different call_ids, a ticket created by a call_started
\* handler is passed to update_ticket by at most one of them.
C29_OneUpdaterPerTicket ==
    \A r1, r2 \in Workers :
        (/\ r1 # r2
         /\ data[r1] # NoData /\ data[r2] # NoData
         /\ event_of(r1) = "call_ended" /\ event_of(r2) = "call_ended"
         /\ phone_of(r1) = phone_of(r2)
         /\ data[r1].call.call_id # data[r2].call.call_id)
        => UpdatedBy(r1) \cap UpdatedBy(r2) = {}

\* The text matches a suspicious pattern, whatever its letter case.
Suspicious(text) ==
    text # NoText /\ \E pat \in suspicious_patterns : Contains(lower(text), pat)

\* The arguments of the last ZendeskAPI call fail input validation as C30
\* describes it.
InvalidArguments ==
    \/ Suspicious(api_call.subject)
    \/ Suspicious(api_call.description)
    \/ api_call.tags # NoText /\ \E i \in DOMAIN api_call.tags : Suspicious(api_call.tags[i])
    \/ api_call.method = "create_ticket" /\ ~PlusAndDigits(api_call.requester_phone)
    \/ api_call.method = "update_ticket"
       /\ ~(api_call.ticket_id.is_int /\ api_call.ticket_id.value > 0)
    \/ api_call.method = "update_ticket"
       /\ api_call.status # NoText /\ lower(api_call.status) \notin valid_statuses

\* C30: create_ticket and update_ticket return None without sending any HTTP
\* request (no user search, no POST, no PUT) when input validation fails: a
\* subject, description or tag matching a suspicious pattern, a requester
\* phone not of the form '+' and 10 to 15 digits, a ticket id that is not a
\* positive integer, or a status outside open/pending/solved/closed.
C30_InvalidInputSendsNothing ==
    (api_call # NoCall /\ InvalidArguments)
    => (api_result = 0 /\ http = <<>>)

\* The last call was create_ticket and its POST was sent and failed.
PostFailed ==
    /\ api_call.method = "create_ticket"
    /\ Len(http) = 2
    /\ http[2].outcome # "ok"

\* C31: create_ticket returns None and does not raise whenever the ticket
\* POST fails, whatever the failure is: a timeout, a connection error, an
\* error status, or an exception raised while the response is checked or
\* decoded.
C31_PostFailureReturnsNone ==
    PostFailed => (api_result = 0 /\ ~api_raised)

\* The name is 'customer' in some letter case.
IsCustomer(name) ==
    LET small == <<"c","u","s","t","o","m","e","r">>
        big == <<"C","U","S","T","O","M","E","R">> IN
    /\ Len(name) = Len(small)
    /\ \A i \in DOMAIN small : name[i] \in {small[i], big[i]}

\* The positions of the users with a non-empty name other than 'customer'.
NamedPositions(users) ==
    {i \in DOMAIN users :
        users[i].name # NoText /\ users[i].name # <<>> /\ ~IsCustomer(users[i].name)}

\* create_ticket has selected a user from the result of its search.
Selected == api_call.method = "create_ticket" /\ Len(http) = 2

\* C33: _select_best_user returns None for an empty list; otherwise the
\* first user in list order whose name is non-empty and is not 'customer' in
\* any letter case, and the first user of the list when there is none.
C33_SelectsFirstNamedUser ==
    Selected
    => LET users == api_frame.users
           named == NamedPositions(users) IN
       api_frame.selected_user =
           IF users = <<>> THEN NoUser
           ELSE IF named # {}
                THEN users[CHOOSE i \in named : \A j \in named : i <= j]
                ELSE users[1]

\* From a result whose first user is called 'CUSTOMER', whose second has an
\* empty name and whose third is called 'Jane', the third was selected.
C33_Witness ==
    /\ Selected
    /\ Len(api_frame.users) = 3
    /\ IsCustomer(api_frame.users[1].name)
    /\ api_frame.users[1].name # <<"c","u","s","t","o","m","e","r">>
    /\ api_frame.users[2].name = <<>>
    /\ api_frame.users[3].name = <<"J","a","n","e">>
    /\ api_frame.selected_user = api_frame.users[3]

\* create_ticket passed validation and made its user search.
Searched == api_call.method = "create_ticket" /\ http # <<>>

\* C34: every ticket-creation payload create_ticket builds contains exactly
\* one of 'requester_id' and 'requester': 'requester_id', the id of the
\* selected user, when the phone search returned at least one user, and
\* otherwise a new 'requester' carrying the phone number; and a failed or
\* empty user search never prevents the ticket from being created: the
\* payload is built and the POST is sent.
C34_OneRequesterAndSearchNeverBlocks ==
    /\ Selected
       => LET data_ == api_frame.data IN
          /\ Cardinality(data_.keys \cap {"requester_id", "requester"}) = 1
          /\ api_frame.users # <<>>
             => /\ "requester_id" \in data_.keys
                /\ data_.requester_id = api_frame.selected_user.id
                /\ api_frame.selected_user \in Range(api_frame.users)
          /\ api_frame.users = <<>>
             => /\ "requester" \in data_.keys
                /\ data_.requester.phone = api_call.requester_phone
    /\ (Searched /\ http[1].outcome # "ok")
       => /\ Len(http) = 2
          /\ http[2].request = "POST /tickets.json"
          /\ api_frame.users = <<>>

\* The calls of the safe_delete_user call under way, by position.
CloseCalls == {k \in DOMAIN safe_delete.calls : safe_delete.calls[k].op = "close_ticket"}

DeleteCalls == {k \in DOMAIN safe_delete.calls : safe_delete.calls[k].op = "delete_user"}

\* The ids of the tickets of a list that are not 'closed', in list order.
OpenIds(tickets) ==
    LET NotClosed(t) == t.status # "closed"
        open == SelectSeq(tickets, NotClosed) IN
    [k \in DOMAIN open |-> open[k].id]

\* The ids passed to close_ticket so far, in call order.
ClosedIds ==
    LET IsClose(c) == c.op = "close_ticket"
        closes == SelectSeq(safe_delete.calls, IsClose) IN
    [k \in DOMAIN closes |-> closes[k].id]

\* C32: safe_delete_user calls delete_user only after close_ticket has
\* succeeded for every ticket of the user whose status is not 'closed', in
\* list order; at the first close_ticket failure it returns False without
\* closing the remaining tickets and without calling delete_user; tickets
\* already 'closed' are never passed to close_ticket.
C32_DeleteOnlyAfterAllClosed ==
    /\ \A d \in DeleteCalls :
        \A t \in Range(safe_delete.user_tickets) :
            t.status # "closed"
            => \E k \in CloseCalls :
                /\ k < d
                /\ safe_delete.calls[k].id = t.id
                /\ safe_delete.calls[k].ok
    /\ LET open == OpenIds(safe_delete.tickets) IN
       /\ Len(ClosedIds) <= Len(open)
       /\ ClosedIds = SubSeq(open, 1, Len(ClosedIds))
    /\ \A k \in CloseCalls :
        ~safe_delete.calls[k].ok
        => /\ k = Len(safe_delete.calls)
           /\ safe_delete.pc = "done"
           /\ ~safe_delete.raised => safe_delete.ret = FALSE
    /\ \A k \in CloseCalls :
        \A t \in Range(safe_delete.user_tickets) :
            t.id = safe_delete.calls[k].id => t.status # "closed"

=============================================================================
